---- MODULE Spec2Model ----
(***************************************************************************)
(* Verification model of the motile napari plugin's lineage-tree code:     *)
(*   - extract_sorted_tracks / sort_track_ids (utils/tree_widget_utils.py) *)
(*   - LineageTreeWidget selection, button and annotation handlers         *)
(*     (widgets/tree_widget.py), the edit table (custom_table_widget.py)   *)
(*   - PointTracker._user_update (utils/point_tracker.py) and the update   *)
(*     and notification handlers of TrackAnnotationWidget                  *)
(*   - solve() and the pins (backend/solve.py, get_existing_pins)          *)
(*   - VolumeModeWidget enabled states (widgets/volume_mode_widget.py)     *)
(*   - the list_updated slots of TrackAnnotationWidget and of              *)
(*     AnnotationButtons (track_annotator.py, edit_button_widget.py); the  *)
(*     selection list itself follows its contract, its source is absent    *)
(*   - the display option combo box and its T key                          *)
(*     (widgets/display_mode_selection_widget.py)                          *)
(*   - the click callbacks that every _update adds to the labels layer     *)
(* Node ids are the integers 1..n (the source uses strings); 0 is the      *)
(* source's sentinel for "no parent".  Colours and spatial positions are   *)
(* carried by the source rows but decide nothing modelled here.            *)
(***************************************************************************)
EXTENDS Integers, Sequences, FiniteSets, TLC

\* ---------------------------------------------------------------- bounds
MaxNodes == 4      \* nodes of a solved graph
MaxT == 2          \* time points 0..MaxT
MaxTracks == 4     \* tracks handed to sort_track_ids on its own
MaxMarks == 2      \* entries of forks and endpoints together
MaxLog == 2        \* rows of the edit table
MaxEdits == 2      \* marks and rows together, in the widget
MaxSolves == 2     \* calls of solve() that have not returned yet
MaxSlice == 1      \* largest value of a plane slider
MaxCount == 10     \* runs of the display refresh that are counted
MaxCallbacks == 2  \* click callbacks on one labels layer

\* `parent_track_id = None` of extract_sorted_tracks
NoneVal == -1

VARIABLES
    solution_nx_graph,  \* [n, t, pred]: the graph handed to extract_sorted_tracks
    soln_copy,          \* edge set of the copy with division edges removed
    track_list,         \* rows built so far
    id_counter,         \* next track id
    counter,            \* next row index
    parent_mapping,     \* one {track_id, parent_track_id} per component
    track_df,           \* the returned row set (with x_axis_pos)
    pc,                 \* position inside extract_sorted_tracks
    sort_input,         \* argument of a direct sort_track_ids call
    sort_output,        \* its return value
    sort_pc,            \* "call" before, "while" in the loop, "done" after
    sort_roots,         \* sort_track_ids: roots, the tracks still to expand
    sort_rounds,        \* passes of the while loop made so far
    selected,           \* LineageTreeWidget.selected: snapshots of rows
    forks,              \* LineageTreeWidget.forks: list of node ids
    endpoints,          \* LineageTreeWidget.endpoints: list of node ids
    table_data,         \* table_widget._data, one record per row
    buttons,            \* enabled state of the five edit buttons
    raised,             \* exception that escaped the last handler, or "none"
    solve_calls,        \* the calls of solve() that have not returned yet
    solved,             \* the graph the last solve() returned, or NoSolution
    existing_pins,      \* get_existing_pins of that graph, as _update reads it
    points_symbol,      \* PointTracker.points.symbol, one entry per table row
    count,              \* TrackAnnotationWidget.count: runs of the display refresh
    dims_listener,      \* whether _check_dim_changed is connected to current_step
    current_step,       \* viewer.dims.current_step[0]
    selected_label,     \* labels.selected_label of the annotator
    labels_callbacks,   \* click callbacks in self.labels.mouse_drag_callbacks
    combo_index,        \* SelectMode.selection_combo.currentIndex()
    mode,               \* TrackAnnotationWidget.mode
    ndisplay,           \* viewer.dims.ndisplay
    volume_viewer       \* VolumeModeWidget: mode, enabled states, checked axis

vars == <<solution_nx_graph, soln_copy, track_list, id_counter, counter,
          parent_mapping, track_df, pc, sort_input, sort_output, sort_pc,
          sort_roots, sort_rounds,
          selected, forks, endpoints, table_data, buttons, raised,
          solve_calls, solved, existing_pins, points_symbol,
          count, dims_listener, current_step, selected_label,
          labels_callbacks, combo_index, mode, ndisplay, volume_viewer>>

extractVars == <<solution_nx_graph, soln_copy, track_list, id_counter, counter,
                 parent_mapping, track_df, pc>>
sortVars == <<sort_input, sort_output, sort_pc, sort_roots, sort_rounds>>
widgetVars == <<selected, forks, endpoints, table_data, buttons, raised>>
solveVars == <<solve_calls, solved, existing_pins>>
pointVars == <<points_symbol>>
annotVars == <<count, dims_listener, current_step, selected_label, combo_index, mode>>
volumeVars == <<ndisplay, volume_viewer>>
layerVars == <<labels_callbacks>>
viewVars == <<count, dims_listener, current_step, selected_label,
             labels_callbacks, combo_index, mode, ndisplay, volume_viewer>>

\* ------------------------------------------------------------ sequences
Range(s) == {s[i] : i \in DOMAIN s}

\* x in list
InList(s, x) == \E i \in DOMAIN s : s[i] = x

\* list.index(x): 0-based position of the first occurrence
ListIndex(s, x) == (CHOOSE i \in 1..Len(s) : s[i] = x /\ \A j \in 1..(i-1) : s[j] # x) - 1

\* list.insert(k, x): insert before 0-based position k (appends when k >= len)
ListInsert(s, k, x) ==
    LET kk == IF k > Len(s) THEN Len(s) ELSE k
    IN SubSeq(s, 1, kk) \o <<x>> \o SubSeq(s, kk + 1, Len(s))

\* ---------------------------------------------------------------- graph
Nodes(g) == 1..g.n

Edges(g) == {e \in Nodes(g) \X Nodes(g) : e[1] \in Range(g.pred[e[2]])}

OutDegree(g, v) == Cardinality({e \in Edges(g) : e[1] = v})

\* every edge goes from a lower to a higher time point (so there is no cycle)
ForwardInTime(g) ==
    \A v \in Nodes(g) : \A p \in Range(g.pred[v]) : g.t[p] < g.t[v]

\* solved graphs: in-degree <= 1, every edge from a frame to a later frame
\* (the solver selects edges of a candidate graph that links a frame to the
\* next one), nodes in any insertion order
Graphs ==
    UNION { { g \in [n : {k}, t : [1..k -> 0..MaxT],
                     pred : [1..k -> {<<>>} \cup {<<p>> : p \in 1..k}]] :
              ForwardInTime(g) } : k \in 0..MaxNodes }

\* the solved graphs the widget is loaded with:
\* the chain a(t=0) -> b(t=1) -> c(t=2)
ScenarioA == [n |-> 3, t |-> <<0, 1, 2>>, pred |-> <<<<>>, <<1>>, <<2>>>>]

\* a(t=0) -> b(t=1) and c(t=2) on its own, a solve that lost the edge b -> c:
\* two tracks
ScenarioB == [n |-> 3, t |-> <<0, 1, 2>>, pred |-> <<<<>>, <<1>>, <<>>>>]

\* c(t=0) with children a(t=1) and b(t=1), the children listed before the
\* parent: the parent lookup of extract_sorted_tracks raises IndexError on it
ScenarioC == [n |-> 3, t |-> <<1, 1, 0>>, pred |-> <<<<3>>, <<3>>, <<>>>>]

\* a(t=0) -> b(t=1), a solve that lost node c
ScenarioD == [n |-> 2, t |-> <<0, 1>>, pred |-> <<<<>>, <<1>>>>]

WidgetGraphs == {ScenarioA, ScenarioB, ScenarioC, ScenarioD}

\* ------------------------------------------- extract_sorted_tracks pieces
\* variant: a division needs more than two children
parent_nodes_OffByOne(g) == {v \in Nodes(g) : OutDegree(g, v) > 2}

\* nodes with more than one child
parent_nodes(g) == {v \in Nodes(g) : OutDegree(g, v) > 1}

out_edges(g, v) == {e \in Edges(g) : e[1] = v}

\* the copy of the graph after remove_edges_from for every parent node
RemoveDivisionEdges(g) ==
    Edges(g) \ UNION {out_edges(g, v) : v \in parent_nodes(g)}

\* variant: soln_copy is the input graph itself, so remove_edges_from takes
\* the edges of the division nodes out of the input
input_after_remove_NoCopy(g) ==
    [g EXCEPT !.pred = [v \in Nodes(g) |->
                          SelectSeq(g.pred[v], LAMBDA p : p \notin parent_nodes(g))]]

\* soln_copy = solution_nx_graph.copy(): the edges are removed from the copy
\* and the graph passed in keeps every node, edge and attribute
input_after_remove(g) == g

\* nx.weakly_connected_components: the component of v, by breadth-first growth
RECURSIVE Grow(_, _)
Grow(E, S) ==
    LET T == S \cup {e[2] : e \in {x \in E : x[1] \in S}}
               \cup {e[1] : e \in {x \in E : x[2] \in S}}
    IN IF T = S THEN S ELSE Grow(E, T)

weakly_connected_component(E, v) == Grow(E, {v})

\* nodes already emitted by the component generator
Seen(tl) == {tl[i].node_id : i \in DOMAIN tl}

\* the generator yields the component of the first node (in the graph's node
\* order) that no earlier component contained
NextStart(g, tl) == CHOOSE v \in Nodes(g) \ Seen(tl) :
                        \A w \in Nodes(g) \ Seen(tl) : v <= w

\* variant: the nodes of the component are taken in the set's own order
SortedByTime_Unsorted(g, S) ==
    {s \in [1..Cardinality(S) -> S] : \A i, j \in DOMAIN s : i # j => s[i] # s[j]}

\* sorted(node_set, key = t): every order of the set that is ascending in t
\* (the iteration order of a set decides between nodes of equal t)
SortedByTime(g, S) ==
    {s \in [1..Cardinality(S) -> S] :
        /\ \A i, j \in DOMAIN s : i # j => s[i] # s[j]
        /\ \A i, j \in DOMAIN s : i < j => g.t[s[i]] <= g.t[s[j]]}

\* rows of track_list whose node_id is parent_id, as track ids
LookupParentTrack(tl, parent_id) ==
    LET hits == SelectSeq(tl, LAMBDA r : r.node_id = parent_id)
    IN [k \in DOMAIN hits |-> hits[k].track_id]

\* variant: only the first node of a component gets the parent's track, the
\* later ones fall back to the sentinel
ParentTrackOf_ResetToSentinel(held, looked) == IF held = NoneVal THEN looked[1] ELSE 0

\* variant: the track of the predecessor is looked up for every node, so a
\* later node of a chain gets the chain's own track
ParentTrackOf_LookupEachTime(held, looked) ==
    IF looked # <<>> THEN looked[1] ELSE held

\* the parent_track_id written to a node that has a predecessor: the value
\* already held for this component, else the looked-up track of the parent
ParentTrackOf(held, looked) == IF held = NoneVal THEN looked[1] ELSE held

\* body of `for node in sorted_nodes` for one node; st carries track_list,
\* counter, parent_track_id and whether the lookup raised IndexError
StepNode(g, idc, st, node) ==
    LET predecessors == g.pred[node]
        track_dict == [t |-> g.t[node], node_id |-> node, track_id |-> idc,
                       index |-> st.counter, parent_id |-> 0,
                       parent_track_id |-> 0]
    IN IF st.raised THEN st
       ELSE IF predecessors # <<>> THEN
            LET parent_id == predecessors[1]
                looked == LookupParentTrack(st.track_list, parent_id)
            IN IF st.parent_track_id = NoneVal /\ looked = <<>>
               THEN [st EXCEPT !.raised = TRUE]
               ELSE LET ptid == ParentTrackOf(st.parent_track_id, looked)
                    IN [track_list |-> Append(st.track_list,
                            [track_dict EXCEPT !.parent_id = parent_id,
                                               !.parent_track_id = ptid]),
                        counter |-> st.counter + 1,
                        parent_track_id |-> ptid,
                        raised |-> FALSE]
       ELSE [track_list |-> Append(st.track_list, track_dict),
             counter |-> st.counter + 1,
             parent_track_id |-> 0,
             raised |-> FALSE]

RECURSIVE NodeLoop(_, _, _, _, _)
NodeLoop(g, idc, st, sorted_nodes, i) ==
    IF i > Len(sorted_nodes) THEN st
    ELSE NodeLoop(g, idc, StepNode(g, idc, st, sorted_nodes[i]), sorted_nodes, i + 1)

\* one iteration of `for node_set in nx.weakly_connected_components(soln_copy)`
ComponentResult(g, idc, tl, cnt, sorted_nodes) ==
    NodeLoop(g, idc,
             [track_list |-> tl, counter |-> cnt,
              parent_track_id |-> NoneVal, raised |-> FALSE],
             sorted_nodes, 1)

\* ------------------------------------------------------- sort_track_ids
\* variant: children inserted after the parent, at index(track_id) + i + 1
RECURSIVE InsertChildren_AfterParent(_, _, _, _)
InsertChildren_AfterParent(acc, track_id, children, i) ==
    IF i > Len(children) THEN acc
    ELSE InsertChildren_AfterParent(
            [children_list |-> Append(acc.children_list, children[i]),
             x_axis_order |-> ListInsert(acc.x_axis_order,
                                 ListIndex(acc.x_axis_order, track_id) + i,
                                 children[i])],
            track_id, children, i + 1)

\* variant: the children are inserted but not collected for the next level
RECURSIVE InsertChildren_NotCollected(_, _, _, _)
InsertChildren_NotCollected(acc, track_id, children, i) ==
    IF i > Len(children) THEN acc
    ELSE InsertChildren_NotCollected(
            [children_list |-> acc.children_list,
             x_axis_order |-> ListInsert(acc.x_axis_order,
                                 ListIndex(acc.x_axis_order, track_id) + (i - 1),
                                 children[i])],
            track_id, children, i + 1)

\* variant: every child is appended at the end of the order
RECURSIVE InsertChildren_Appended(_, _, _, _)
InsertChildren_Appended(acc, track_id, children, i) ==
    IF i > Len(children) THEN acc
    ELSE InsertChildren_Appended(
            [children_list |-> Append(acc.children_list, children[i]),
             x_axis_order |-> Append(acc.x_axis_order, children[i])],
            track_id, children, i + 1)

\* inner `for i, c in enumerate(children)`: insert each child at
\* x_axis_order.index(track_id) + i, collecting it for the next level
RECURSIVE InsertChildren(_, _, _, _)
InsertChildren(acc, track_id, children, i) ==
    IF i > Len(children) THEN acc
    ELSE InsertChildren(
            [children_list |-> Append(acc.children_list, children[i]),
             x_axis_order |-> ListInsert(acc.x_axis_order,
                                 ListIndex(acc.x_axis_order, track_id) + (i - 1),
                                 children[i])],
            track_id, children, i + 1)

ChildrenOf(tracks, track_id) ==
    LET hits == SelectSeq(tracks, LAMBDA r : r.parent_track_id = track_id)
    IN [k \in DOMAIN hits |-> hits[k].track_id]

\* `for track_id in roots`
RECURSIVE RootsLoop(_, _, _, _)
RootsLoop(acc, tracks, roots, k) ==
    IF k > Len(roots) THEN acc
    ELSE RootsLoop(InsertChildren(acc, roots[k], ChildrenOf(tracks, roots[k]), 1),
                   tracks, roots, k + 1)

\* `while len(roots) > 0`
RECURSIVE WhileRoots(_, _, _)
WhileRoots(tracks, roots, x_axis_order) ==
    IF Len(roots) = 0 THEN x_axis_order
    ELSE LET acc == RootsLoop([children_list |-> <<>>, x_axis_order |-> x_axis_order],
                              tracks, roots, 1)
         IN WhileRoots(tracks, acc.children_list, acc.x_axis_order)

sort_track_ids(tracks) ==
    LET roots == ChildrenOf(tracks, 0)
    IN WhileRoots(tracks, roots, roots)

\* variant: the column is taken from the row, not from the row's track
XAxisPos_PerRow(x_axis_order, row) == row.index

\* node['x_axis_pos'] = x_axis_order.index(node['track_id'])
XAxisPos(x_axis_order, row) == ListIndex(x_axis_order, row.track_id)

WithXAxisPos(x_axis_order, row) ==
    [t |-> row.t, node_id |-> row.node_id, track_id |-> row.track_id,
     index |-> row.index, parent_id |-> row.parent_id,
     parent_track_id |-> row.parent_track_id,
     x_axis_pos |-> XAxisPos(x_axis_order, row)]

\* --------------------------------------------- LineageTreeWidget pieces
AllButtonsOff ==
    [fork_btn |-> FALSE, close_btn |-> FALSE, reset_btn |-> FALSE,
     connect_btn |-> FALSE, break_btn |-> FALSE]

NodeButtonsOn ==
    [fork_btn |-> TRUE, close_btn |-> TRUE, reset_btn |-> TRUE,
     connect_btn |-> FALSE, break_btn |-> FALSE]

EdgeButtonsOn ==
    [fork_btn |-> FALSE, close_btn |-> FALSE, reset_btn |-> FALSE,
     connect_btn |-> TRUE, break_btn |-> TRUE]

\* the widget as __init__ leaves it
WidgetIdle ==
    /\ selected = <<>>
    /\ forks = <<>>
    /\ endpoints = <<>>
    /\ table_data = <<>>
    /\ buttons = AllButtonsOff
    /\ raised = "none"

\* no solve() has been called
NoSolution == [edges |-> {}, pinned |-> <<>>, returned |-> FALSE]

SolveIdle ==
    /\ solve_calls = <<>>
    /\ solved = NoSolution
    /\ existing_pins = {}

\* marks, rows and marked points that the widget holds
PendingEdits(fk, ep, data, symbol) ==
    Len(fk) + Len(ep) + Len(data)
        + Cardinality({i \in DOMAIN symbol : symbol[i] # "disc"})

\* no PointTracker has been constructed
PointsIdle == points_symbol = <<>>

\* VolumeModeWidget.__init__ up to its closing call of on_ndisplay_changed:
\* Plane disabled, Volume enabled, the three sliders disabled at 0, the z
\* radio button checked; the radio buttons are created enabled
VolumeConstructed ==
    [mode |-> "volume", plane_btn |-> FALSE, volume_btn |-> TRUE,
     z_plane_btn |-> TRUE, y_plane_btn |-> TRUE, x_plane_btn |-> TRUE,
     checked |-> "z",
     z_plane_slider |-> FALSE, y_plane_slider |-> FALSE, x_plane_slider |-> FALSE,
     value |-> [z |-> 0, y |-> 0, x |-> 0],
     depiction |-> "volume", normal |-> "z",
     position |-> [z |-> 0, y |-> 0, x |-> 0]]

\* no display refresh has run, the dims listener is connected (line 39), and
\* no VolumeModeWidget is in use
ViewIdle ==
    /\ count = 0
    /\ dims_listener = TRUE
    /\ current_step = 0
    /\ selected_label = 0
    /\ labels_callbacks = 0
    /\ combo_index = 0
    /\ mode = "selection"
    /\ ndisplay = 2
    /\ volume_viewer = VolumeConstructed

\* keyboard modifiers of a click; only equality with ShiftModifier is tested
Modifiers == {"NoModifier", "ShiftModifier", "ControlModifier"}

\* variant: Shift always extends, whatever the length of the selection
SelectedAfter_NoLengthCheck(sel, node, modifiers) ==
    IF modifiers = "ShiftModifier" THEN Append(sel, node) ELSE <<node>>

\* variant: the modifier is ignored, a click always replaces the selection
SelectedAfter_AlwaysReplace(sel, node, modifiers) == <<node>>

\* _select_node, lines 214-241: the selection after clicking node
SelectedAfter(sel, node, modifiers) ==
    LET cleared == IF Len(sel) = 2 THEN <<>> ELSE sel
    IN IF modifiers = "ShiftModifier" /\ Len(cleared) = 1
       THEN Append(cleared, node)
       ELSE <<node>>

\* variant: a valid pair is reported but never reordered
check_connection_NoSwap(sel) ==
    LET tp1 == sel[1].t
        tp2 == sel[2].t
    IN [ok |-> (tp2 - tp1 = 1) \/ (tp1 - tp2 = 1), selected |-> sel]

\* _check_connection: whether the two selected nodes are one time point
\* apart, and the selection it leaves (earlier node first when they are)
check_connection(sel) ==
    LET tp1 == sel[1].t
        tp2 == sel[2].t
    IN IF ~((tp2 - tp1 = 1) \/ (tp1 - tp2 = 1))
       THEN [ok |-> FALSE, selected |-> sel]
       ELSE IF tp2 < tp1
            THEN [ok |-> TRUE, selected |-> <<sel[2], sel[1]>>]
            ELSE [ok |-> TRUE, selected |-> sel]

\* _update_buttons: the buttons it sets and the selection it leaves
update_buttons(sel) ==
    IF Len(sel) = 1 THEN [buttons |-> NodeButtonsOn, selected |-> sel]
    ELSE IF Len(sel) = 2 /\ check_connection(sel).ok
         THEN [buttons |-> EdgeButtonsOn, selected |-> check_connection(sel).selected]
         ELSE [buttons |-> AllButtonsOff, selected |-> sel]

\* list.remove(x): drop the first occurrence of x
ListRemove(s, x) ==
    LET k == CHOOSE i \in DOMAIN s : s[i] = x /\ \A j \in 1..(i - 1) : s[j] # x
    IN SubSeq(s, 1, k - 1) \o SubSeq(s, k + 1, Len(s))

\* _edit_node, lines 334-362: the two lists after the edit on node_id, or the
\* ValueError of list.remove on a list that does not hold node_id
EditMarks(edit, fk, ep, node_id) ==
    IF edit = "Fork" THEN
        [forks |-> Append(fk, node_id),
         endpoints |-> IF InList(ep, node_id) THEN ListRemove(ep, node_id) ELSE ep,
         raised |-> "none"]
    ELSE IF edit = "Close" THEN
        IF InList(fk, node_id) /\ ~InList(ep, node_id)
        THEN [forks |-> fk, endpoints |-> ep, raised |-> "ValueError"]
        ELSE [forks |-> fk,
              endpoints |-> Append(IF InList(fk, node_id)
                                   THEN ListRemove(ep, node_id) ELSE ep, node_id),
              raised |-> "none"]
    ELSE
        [forks |-> IF InList(fk, node_id) THEN ListRemove(fk, node_id) ELSE fk,
         endpoints |-> IF InList(ep, node_id) THEN ListRemove(ep, node_id) ELSE ep,
         raised |-> "none"]

\* ------------------------------------------ extract_sorted_tracks, steps
SortIdle ==
    /\ sort_input = <<>>
    /\ sort_output = <<>>
    /\ sort_pc = "idle"
    /\ sort_roots = <<>>
    /\ sort_rounds = 0

InitExtract ==
    /\ solution_nx_graph \in Graphs
    /\ soln_copy = {}
    /\ track_list = <<>>
    /\ id_counter = 1
    /\ counter = 0
    /\ parent_mapping = <<>>
    /\ track_df = <<>>
    /\ pc = "start"
    /\ SortIdle
    /\ WidgetIdle
    /\ SolveIdle
    /\ PointsIdle
    /\ ViewIdle

\* lines 35-42: find the division nodes and cut their outgoing edges in a copy
CutDivisionEdges ==
    /\ pc = "start"
    /\ soln_copy' = RemoveDivisionEdges(solution_nx_graph)
    /\ solution_nx_graph' = input_after_remove(solution_nx_graph)
    /\ pc' = "components"
    /\ UNCHANGED <<track_list, id_counter, counter, parent_mapping, track_df>>
    /\ UNCHANGED sortVars
    /\ UNCHANGED pointVars
    /\ UNCHANGED viewVars
    /\ UNCHANGED solveVars
    /\ UNCHANGED widgetVars

\* lines 45-86: one weakly connected component becomes one track
ProcessComponent ==
    /\ pc = "components"
    /\ Nodes(solution_nx_graph) \ Seen(track_list) # {}
    /\ LET g == solution_nx_graph
           node_set == weakly_connected_component(soln_copy, NextStart(g, track_list))
       IN \E sorted_nodes \in SortedByTime(g, node_set) :
            LET res == ComponentResult(g, id_counter, track_list, counter, sorted_nodes)
            IN /\ ~res.raised
               /\ track_list' = res.track_list
               /\ counter' = res.counter
               /\ parent_mapping' = Append(parent_mapping,
                      [track_id |-> id_counter,
                       parent_track_id |-> res.parent_track_id])
               /\ id_counter' = id_counter + 1
    /\ UNCHANGED <<solution_nx_graph, soln_copy, track_df, pc>>
    /\ UNCHANGED sortVars
    /\ UNCHANGED pointVars
    /\ UNCHANGED viewVars
    /\ UNCHANGED solveVars
    /\ UNCHANGED widgetVars

\* line 74: `[...][0]` on an empty list, the parent has no row yet: IndexError;
\* the call ends without returning rows
ParentLookupRaises ==
    /\ pc = "components"
    /\ Nodes(solution_nx_graph) \ Seen(track_list) # {}
    /\ LET g == solution_nx_graph
           node_set == weakly_connected_component(soln_copy, NextStart(g, track_list))
       IN \E sorted_nodes \in SortedByTime(g, node_set) :
            ComponentResult(g, id_counter, track_list, counter, sorted_nodes).raised
    /\ pc' = "raised"
    /\ UNCHANGED <<solution_nx_graph, soln_copy, track_list, id_counter, counter,
                   parent_mapping, track_df>>
    /\ UNCHANGED sortVars
    /\ UNCHANGED pointVars
    /\ UNCHANGED viewVars
    /\ UNCHANGED solveVars
    /\ UNCHANGED widgetVars

\* lines 88-93: order the tracks, give every row its column, return the rows
AssignXAxisPos ==
    /\ pc = "components"
    /\ Nodes(solution_nx_graph) \ Seen(track_list) = {}
    /\ LET x_axis_order == sort_track_ids(parent_mapping)
       IN IF \A i \in DOMAIN track_list : InList(x_axis_order, track_list[i].track_id)
          THEN /\ track_df' = [i \in DOMAIN track_list |->
                                  WithXAxisPos(x_axis_order, track_list[i])]
               /\ pc' = "done"
          ELSE \* list.index raises ValueError for a track missing from the order
               /\ track_df' = track_df
               /\ pc' = "raised"
    /\ UNCHANGED <<solution_nx_graph, soln_copy, track_list, id_counter, counter,
                   parent_mapping>>
    /\ UNCHANGED sortVars
    /\ UNCHANGED pointVars
    /\ UNCHANGED viewVars
    /\ UNCHANGED solveVars
    /\ UNCHANGED widgetVars

NextExtract ==
    \/ CutDivisionEdges
    \/ ProcessComponent
    \/ ParentLookupRaises
    \/ AssignXAxisPos

SpecExtract == InitExtract /\ [][NextExtract]_vars

\* ------------------------------- extract_sorted_tracks, malformed input
\* a solved graph with a second edge into one of its nodes, from another node
\* of an earlier frame; predecessors() lists them in the order of insertion
WithSecondPredecessor(g, v, p, first) ==
    [g EXCEPT !.pred[v] = IF first THEN <<p>> \o g.pred[v] ELSE g.pred[v] \o <<p>>]

InitMalformed ==
    /\ \E g \in Graphs, v \in 1..MaxNodes, p \in 1..MaxNodes, first \in BOOLEAN :
          /\ v \in Nodes(g)
          /\ p \in Nodes(g)
          /\ g.pred[v] # <<>>
          /\ p # g.pred[v][1]
          /\ g.t[p] < g.t[v]
          /\ solution_nx_graph = WithSecondPredecessor(g, v, p, first)
    /\ soln_copy = {}
    /\ track_list = <<>>
    /\ id_counter = 1
    /\ counter = 0
    /\ parent_mapping = <<>>
    /\ track_df = <<>>
    /\ pc = "start"
    /\ SortIdle
    /\ WidgetIdle
    /\ SolveIdle
    /\ PointsIdle
    /\ ViewIdle

SpecMalformed == InitMalformed /\ [][NextExtract]_vars

\* ------------------------------------------------- sort_track_ids alone
\* a track forest: tracks 1..k, each with parent 0 or another track, no cycle
RECURSIVE TrackWalkUp(_, _, _)
TrackWalkUp(p, v, k) ==
    IF v = 0 THEN 0 ELSE IF k = 0 THEN v ELSE TrackWalkUp(p, p[v], k - 1)

TrackForests ==
    UNION { { [i \in 1..k |-> [track_id |-> i, parent_track_id |-> p[i]]] :
              p \in {q \in [1..k -> 0..k] :
                        \A v \in 1..k : TrackWalkUp(q, v, k) = 0} } : k \in 0..MaxTracks }

ExtractIdle ==
    /\ solution_nx_graph = [n |-> 0, t |-> <<>>, pred |-> <<>>]
    /\ soln_copy = {}
    /\ track_list = <<>>
    /\ id_counter = 1
    /\ counter = 0
    /\ parent_mapping = <<>>
    /\ track_df = <<>>
    /\ pc = "idle"

InitSort ==
    /\ sort_input \in TrackForests
    /\ sort_output = <<>>
    /\ sort_pc = "call"
    /\ sort_roots = <<>>
    /\ sort_rounds = 0
    /\ ExtractIdle
    /\ WidgetIdle
    /\ SolveIdle
    /\ PointsIdle
    /\ ViewIdle

CallSortTrackIds ==
    /\ sort_pc = "call"
    /\ sort_output' = sort_track_ids(sort_input)
    /\ sort_pc' = "done"
    /\ UNCHANGED <<sort_input, sort_roots, sort_rounds>>
    /\ UNCHANGED extractVars
    /\ UNCHANGED widgetVars
    /\ UNCHANGED solveVars
    /\ UNCHANGED pointVars
    /\ UNCHANGED viewVars

NextSort == CallSortTrackIds

SpecSort == InitSort /\ [][NextSort]_vars

\* ------------------------------------- sort_track_ids, one loop pass a step
\* line 112: the condition of "while len(roots) > 0"
LoopContinues_Always(roots) == TRUE

LoopContinues(roots) == Len(roots) > 0

\* lines 108-110: roots are the tracks with parent 0, x_axis_order a copy
SortEnter ==
    /\ sort_pc = "call"
    /\ sort_roots' = ChildrenOf(sort_input, 0)
    /\ sort_output' = ChildrenOf(sort_input, 0)
    /\ sort_rounds' = 0
    /\ sort_pc' = "while"
    /\ UNCHANGED sort_input
    /\ UNCHANGED extractVars
    /\ UNCHANGED widgetVars
    /\ UNCHANGED solveVars
    /\ UNCHANGED pointVars
    /\ UNCHANGED viewVars

\* lines 112-119: one pass of the while loop; the children collected in the
\* pass become the next roots
SortPass ==
    /\ sort_pc = "while"
    /\ LoopContinues(sort_roots)
    /\ LET acc == RootsLoop([x_axis_order |-> sort_output, children_list |-> <<>>],
                            sort_input, sort_roots, 1)
       IN /\ sort_output' = acc.x_axis_order
          /\ sort_roots' = acc.children_list
    /\ sort_rounds' = sort_rounds + 1
    /\ UNCHANGED <<sort_input, sort_pc>>
    /\ UNCHANGED extractVars
    /\ UNCHANGED widgetVars
    /\ UNCHANGED solveVars
    /\ UNCHANGED pointVars
    /\ UNCHANGED viewVars

\* line 121: the loop condition fails and x_axis_order is returned
SortReturn ==
    /\ sort_pc = "while"
    /\ ~LoopContinues(sort_roots)
    /\ sort_pc' = "done"
    /\ UNCHANGED <<sort_input, sort_output, sort_roots, sort_rounds>>
    /\ UNCHANGED extractVars
    /\ UNCHANGED widgetVars
    /\ UNCHANGED solveVars
    /\ UNCHANGED pointVars
    /\ UNCHANGED viewVars

NextSortLoop ==
    \/ SortEnter
    \/ SortPass
    \/ SortReturn

\* the function is straight-line python: once called it keeps running
SpecSortLoop == InitSort /\ [][NextSortLoop]_vars /\ WF_vars(NextSortLoop)

\* ------------------------------------- extract_sorted_tracks as one call
\* the loop over the components run to its end: the returned rows, or the
\* IndexError of the parent lookup
RECURSIVE ExtractLoop(_, _, _, _, _, _)
ExtractLoop(g, E, tl, idc, cnt, pm) ==
    IF Nodes(g) \ Seen(tl) = {}
    THEN IF \A i \in DOMAIN tl : InList(sort_track_ids(pm), tl[i].track_id)
         THEN [raised |-> FALSE,
               rows |-> [i \in DOMAIN tl |-> WithXAxisPos(sort_track_ids(pm), tl[i])]]
         ELSE [raised |-> TRUE, rows |-> <<>>]
    ELSE LET node_set == weakly_connected_component(E, NextStart(g, tl))
             sorted_nodes == CHOOSE x \in SortedByTime(g, node_set) : TRUE
             res == ComponentResult(g, idc, tl, cnt, sorted_nodes)
         IN IF res.raised THEN [raised |-> TRUE, rows |-> <<>>]
            ELSE ExtractLoop(g, E, res.track_list, idc + 1, res.counter,
                     Append(pm, [track_id |-> idc,
                                 parent_track_id |-> res.parent_track_id]))

extract_sorted_tracks(g) ==
    ExtractLoop(g, RemoveDivisionEdges(g), <<>>, 1, 0, <<>>)

\* ------------------------------------------- LineageTreeWidget, handlers
InitWidget ==
    /\ solution_nx_graph = [n |-> 0, t |-> <<>>, pred |-> <<>>]
    /\ soln_copy = {}
    /\ track_list = <<>>
    /\ id_counter = 1
    /\ counter = 0
    /\ parent_mapping = <<>>
    /\ track_df = <<>>
    /\ pc = "constructed"
    /\ SortIdle
    /\ WidgetIdle
    /\ SolveIdle
    /\ PointsIdle
    /\ ViewIdle

localVars == <<soln_copy, track_list, id_counter, counter, parent_mapping>>

\* variant: the table is emptied before the extraction is attempted
track_df_after_ClearedFirst(old, res) == IF res.raised THEN <<>> ELSE res.rows

\* self.track_df = extract_sorted_tracks(tracks, labels): the assignment runs
\* only when the call has returned
track_df_after(old, res) == IF res.raised THEN old ELSE res.rows

\* extract_sorted_tracks of each graph the widget is loaded with
WidgetExtractions == [g \in WidgetGraphs |-> extract_sorted_tracks(g)]

\* _update with a solved graph: self.tracks is assigned, then the rows are
\* extracted and assigned; selected, forks, endpoints and the buttons are not
\* touched.  An exception of the extraction ends the handler there.
UpdateTracks(tracks) ==
    /\ pc \in {"constructed", "loaded"}
    /\ LET res == WidgetExtractions[tracks]
       IN /\ solution_nx_graph' = tracks
          /\ track_df' = track_df_after(track_df, res)
          /\ pc' = IF res.raised THEN pc ELSE "loaded"
          /\ raised' = IF res.raised THEN "IndexError" ELSE "none"
    /\ UNCHANGED localVars
    /\ UNCHANGED sortVars
    /\ UNCHANGED solveVars
    /\ UNCHANGED <<selected, forks, endpoints, table_data, buttons>>

Update ==
    /\ \E tracks \in WidgetGraphs : UpdateTracks(tracks)
    /\ UNCHANGED pointVars
    /\ UNCHANGED viewVars

\* the keys of label_color_dict: the track ids of the table (line 254)
LabelColorKeys(df) == {df[i].track_id : i \in DOMAIN df}

\* _select_node, lines 214-246.  An extending click reads size[] at the row
\* index of the node already selected (line 238): IndexError, before the
\* selection changes, when the table of a later solve has fewer rows.  After
\* the selection is assigned, _update_label_cmap reads label_color_dict at
\* the track id of every selected node (line 267): KeyError, and
\* _update_buttons is not reached, when a selected track id is not in the
\* table any more.
select_node(st, df, node, modifiers) ==
    LET extends == modifiers = "ShiftModifier" /\ Len(st.selected) = 1
        sel == SelectedAfter(st.selected, node, modifiers)
        upd == update_buttons(sel)
    IN IF extends /\ st.selected[1].index >= Len(df)
       THEN [selected |-> st.selected, buttons |-> st.buttons, raised |-> "IndexError"]
       ELSE IF \E i \in DOMAIN sel : sel[i].track_id \notin LabelColorKeys(df)
       THEN [selected |-> sel, buttons |-> st.buttons, raised |-> "KeyError"]
       ELSE [selected |-> upd.selected, buttons |-> upd.buttons, raised |-> "none"]

\* one run of _select_node on the widget
SelectNode(node, modifiers) ==
    LET res == select_node([selected |-> selected, buttons |-> buttons,
                            raised |-> "none"], track_df, node, modifiers)
    IN /\ selected' = res.selected
       /\ buttons' = res.buttons
       /\ raised' = res.raised
       /\ UNCHANGED <<forks, endpoints, table_data>>
       /\ UNCHANGED extractVars
       /\ UNCHANGED sortVars
       /\ UNCHANGED pointVars
       /\ UNCHANGED viewVars
       /\ UNCHANGED solveVars

\* _on_click: a point of the tree plot is clicked
OnClick(index, modifiers) ==
    /\ pc = "loaded"
    /\ LET node_df == SelectSeq(track_df, LAMBDA r : r.index = index)
       IN /\ node_df # <<>>
          /\ SelectNode(node_df[1], modifiers)

\* one run of the click callback _update adds to the labels layer, for a
\* mouse press on the label value at time t
LabelsClick(t, value, modifiers) ==
    /\ pc = "loaded"
    /\ LET node_df == SelectSeq(track_df, LAMBDA r : r.t = t /\ r.track_id = value)
       IN /\ node_df # <<>>
          /\ SelectNode(node_df[1], modifiers)

\* the rows of track_df that _on_table_clicked finds for a clicked cell:
\* none for an Action cell ("Add", "Break") or for a node without a row
TableLookup(df, row, column) ==
    IF column = "Action" THEN <<>>
    ELSE SelectSeq(df, LAMBDA r : r.node_id = row[column])

\* _on_table_clicked: a cell of the edit table is clicked; the node of a
\* Source or Target cell is selected when track_df has a row for it, and
\* nothing happens otherwise
OnTableClicked(row, column) ==
    /\ row \in DOMAIN table_data
    /\ LET node_df == TableLookup(track_df, table_data[row], column)
       IN IF node_df # <<>>
          THEN SelectNode(node_df[1], "NoModifier")
          ELSE /\ raised' = "none"
               /\ UNCHANGED <<selected, forks, endpoints, table_data, buttons>>
               /\ UNCHANGED extractVars
               /\ UNCHANGED sortVars
               /\ UNCHANGED pointVars
               /\ UNCHANGED viewVars
               /\ UNCHANGED solveVars

\* TableWidget._delete_row: the rows selected in the view are deleted from
\* the bottom up, from every column
DeleteRows(data, rows) ==
    SelectSeq([i \in DOMAIN data |-> [row |-> data[i], keep |-> i \notin rows]],
              LAMBDA x : x.keep)

DeleteRow(rows) ==
    /\ rows # {}
    /\ rows \subseteq DOMAIN table_data
    /\ table_data' = [i \in DOMAIN DeleteRows(table_data, rows) |->
                         DeleteRows(table_data, rows)[i].row]
    /\ raised' = "none"
    /\ UNCHANGED <<selected, forks, endpoints, buttons>>
    /\ UNCHANGED extractVars
    /\ UNCHANGED sortVars
    /\ UNCHANGED pointVars
    /\ UNCHANGED viewVars
    /\ UNCHANGED solveVars

\* variant: the new row is put in front of the table
edit_edge_Prepend(edit, sel, data) ==
    IF Len(sel) < 2
    THEN [table_data |-> data, selected |-> sel, raised |-> "IndexError",
          updated |-> FALSE]
    ELSE [table_data |-> <<[Source |-> sel[1].node_id,
                            Target |-> sel[2].node_id,
                            Action |-> edit]>> \o data,
          selected |-> <<>>, raised |-> "none", updated |-> TRUE]

\* _edit_edge: a row for the two selected nodes is added to the table, or
\* IndexError when fewer than two nodes are selected
edit_edge(edit, sel, data) ==
    IF Len(sel) < 2
    THEN [table_data |-> data, selected |-> sel, raised |-> "IndexError",
          updated |-> FALSE]
    ELSE [table_data |-> Append(data, [Source |-> sel[1].node_id,
                                       Target |-> sel[2].node_id,
                                       Action |-> edit]),
          selected |-> <<>>, raised |-> "none", updated |-> TRUE]

\* the Connect button is clicked: both slots connected to connect_btn.clicked
\* run, _edit_edge('Add') (line 72) and then _edit_edge('Break') (line 77)
ConnectClicked ==
    /\ pc = "loaded"
    /\ buttons.connect_btn
    /\ Len(table_data) < MaxLog
    /\ PendingEdits(forks, endpoints, table_data, points_symbol) < MaxEdits
    /\ LET first == edit_edge("Add", selected, table_data)
           second == edit_edge("Break", first.selected, first.table_data)
       IN /\ table_data' = second.table_data
          /\ selected' = second.selected
          /\ raised' = second.raised
          /\ buttons' = IF second.updated THEN update_buttons(second.selected).buttons
                        ELSE IF first.updated THEN update_buttons(first.selected).buttons
                        ELSE buttons
    /\ UNCHANGED <<forks, endpoints>>
    /\ UNCHANGED extractVars
    /\ UNCHANGED sortVars
    /\ UNCHANGED pointVars
    /\ UNCHANGED viewVars
    /\ UNCHANGED solveVars

\* the Break button is clicked: no slot is connected to break_btn.clicked
\* (line 77 connects connect_btn a second time), so nothing runs
BreakClicked ==
    /\ pc = "loaded"
    /\ buttons.break_btn
    /\ UNCHANGED vars

\* key A or B, bound by bind_key_with_condition to its (enabled) button
EdgeKey(edit) ==
    /\ pc = "loaded"
    /\ IF edit = "Add" THEN buttons.connect_btn ELSE buttons.break_btn
    /\ Len(table_data) < MaxLog
    /\ PendingEdits(forks, endpoints, table_data, points_symbol) < MaxEdits
    /\ LET res == edit_edge(edit, selected, table_data)
       IN /\ table_data' = res.table_data
          /\ selected' = res.selected
          /\ raised' = res.raised
          /\ buttons' = IF res.updated THEN update_buttons(res.selected).buttons
                        ELSE buttons
    /\ UNCHANGED <<forks, endpoints>>
    /\ UNCHANGED extractVars
    /\ UNCHANGED sortVars
    /\ UNCHANGED pointVars
    /\ UNCHANGED viewVars
    /\ UNCHANGED solveVars

\* _edit_node, from the Fork/Close/Reset button or its key F/C/R (both act
\* only while the button is enabled); a ValueError leaves selection and
\* buttons as they were
EditNode(edit) ==
    /\ pc = "loaded"
    /\ buttons.fork_btn
    /\ selected # <<>>
    /\ LET res == IF selected[1].index >= Len(track_df)
                  THEN \* self.symbols[node['index']] of a row that is gone
                       [forks |-> forks, endpoints |-> endpoints,
                        raised |-> "IndexError"]
                  ELSE EditMarks(edit, forks, endpoints, selected[1].node_id)
       IN /\ Len(res.forks) + Len(res.endpoints) <= MaxMarks
          /\ PendingEdits(res.forks, res.endpoints, table_data, points_symbol) <= MaxEdits
          /\ forks' = res.forks
          /\ endpoints' = res.endpoints
          /\ raised' = res.raised
          /\ IF res.raised = "none"
             THEN /\ selected' = update_buttons(<<>>).selected
                  /\ buttons' = update_buttons(<<>>).buttons
             ELSE UNCHANGED <<selected, buttons>>
    /\ UNCHANGED table_data
    /\ UNCHANGED extractVars
    /\ UNCHANGED sortVars
    /\ UNCHANGED pointVars
    /\ UNCHANGED viewVars
    /\ UNCHANGED solveVars

Next ==
    \/ Update
    \/ \E i \in DOMAIN track_df, m \in Modifiers : OnClick(i - 1, m)
    \/ \E i \in DOMAIN track_df, m \in Modifiers :
          LabelsClick(track_df[i].t, track_df[i].track_id, m)
    \/ \E r \in DOMAIN table_data, c \in {"Source", "Target", "Action"} :
          OnTableClicked(r, c)
    \/ \E rows \in SUBSET (DOMAIN table_data) : DeleteRow(rows)
    \/ ConnectClicked
    \/ BreakClicked
    \/ \E edit \in {"Add", "Break"} : EdgeKey(edit)
    \/ \E edit \in {"Fork", "Close", "Reset"} : EditNode(edit)

Spec == InitWidget /\ [][Next]_vars

\* ------------------------------------------------------- PointTracker
\* _construct_points: one symbol per row of the track table, a disc for a
\* row without a mark
construct_points(df) == [i \in DOMAIN df |-> "disc"]

PointEdits == {"fork", "endpoint", "intermittent"}

SymbolOf(edit) ==
    IF edit = "fork" THEN "triangle_down"
    ELSE IF edit = "endpoint" THEN "x"
    ELSE "disc"

\* variant: the first index is read without testing that there is one
user_update_NoCheck(symbol, df, node_id, edit) ==
    LET indices == SelectSeq([i \in DOMAIN df |-> i], LAMBDA i : df[i].node_id = node_id)
    IN IF indices = <<>> \/ indices[1] > Len(symbol)
       THEN [symbol |-> symbol, raised |-> "IndexError"]
       ELSE [symbol |-> [symbol EXCEPT ![indices[1]] = SymbolOf(edit)],
             raised |-> "none"]

\* PointTracker._user_update: the symbol of the first row whose node_id is
\* the edited node is replaced; nothing happens when no row has that node_id
user_update(symbol, df, node_id, edit) ==
    LET indices == SelectSeq([i \in DOMAIN df |-> i], LAMBDA i : df[i].node_id = node_id)
    IN IF indices = <<>> THEN [symbol |-> symbol, raised |-> "none"]
       ELSE IF indices[1] > Len(symbol)
       THEN [symbol |-> symbol, raised |-> "IndexError"]
       ELSE [symbol |-> [symbol EXCEPT ![indices[1]] = SymbolOf(edit)],
             raised |-> "none"]

\* TrackAnnotationWidget._update: the table is replaced, then the point
\* tracker is constructed or updated from the new table
AnnotatorUpdate ==
    /\ \E tracks \in WidgetGraphs : UpdateTracks(tracks)
    /\ points_symbol' = IF raised' = "none" THEN construct_points(track_df')
                        ELSE points_symbol
    /\ UNCHANGED viewVars

\* TrackAnnotationWidget._user_update: forwarded to the point tracker when
\* there is one
UserUpdate(node_id, edit) ==
    /\ LET res == IF pc = "loaded"
                  THEN user_update(points_symbol, track_df, node_id, edit)
                  ELSE [symbol |-> points_symbol, raised |-> "none"]
       IN /\ PendingEdits(forks, endpoints, table_data, res.symbol) <= MaxEdits
          /\ points_symbol' = res.symbol
          /\ raised' = res.raised
    /\ UNCHANGED <<selected, forks, endpoints, table_data, buttons>>
    /\ UNCHANGED viewVars
    /\ UNCHANGED extractVars
    /\ UNCHANGED sortVars
    /\ UNCHANGED solveVars

\* the node ids a notification can carry: the nodes of any solve so far
PointNodeIds == UNION {Nodes(g) : g \in WidgetGraphs}

NextPoints ==
    \/ AnnotatorUpdate
    \/ \E i \in DOMAIN track_df, m \in {"NoModifier", "ShiftModifier"} :
          OnClick(i - 1, m)
    \/ \E edit \in {"Add", "Break"} : EdgeKey(edit)
    \/ \E r \in DOMAIN table_data, c \in {"Source", "Target", "Action"} :
          OnTableClicked(r, c)
    \/ \E node_id \in PointNodeIds, edit \in PointEdits : UserUpdate(node_id, edit)

SpecPoints == InitWidget /\ [][NextPoints]_vars

\* ------------------------------------------------- solve() and the pins
\* the frames of the segmentation handed to solve(): nodes 1 and 2 in frame
\* 0, nodes 3 and 4 in frame 1
SegTime == <<0, 0, 1, 1>>

\* get_candidate_graph: the pairs of consecutive frames that lie within
\* max_edge_distance (node 3 is too far from node 2)
CandEdges == {<<1, 3>>, <<1, 4>>, <<2, 4>>}

\* the rows _edit_edge can write: two nodes one frame apart, the earlier first
EditRows ==
    {[Source |-> u, Target |-> v, Action |-> a] :
        u \in {w \in DOMAIN SegTime : SegTime[w] = 0},
        v \in {w \in DOMAIN SegTime : SegTime[w] = 1},
        a \in {"Add", "Break"}}

EditLogs == UNION {[1..k -> EditRows] : k \in 0..MaxLog}

\* the pin of one row of the table
PinOf_AlwaysTrue(row) == <<<<row.Source, row.Target, TRUE>>>>

PinOf(row) ==
    IF row.Action = "Add" THEN <<<<row.Source, row.Target, TRUE>>>>
    ELSE IF row.Action = "Break" THEN <<<<row.Source, row.Target, FALSE>>>>
    ELSE <<>>

\* _get_pins: the table is a dict of five columns, so `not len(edits) > 0`
\* is never true and the loop over the rows always runs
RECURSIVE get_pins(_)
get_pins(edits) ==
    IF edits = <<>> THEN <<>> ELSE PinOf(Head(edits)) \o get_pins(Tail(edits))

\* variant: an attribute that is already set is not overwritten
SetPinned_KeepFirst(pinned, e, value) ==
    [x \in DOMAIN pinned \cup {e} |-> IF x \in DOMAIN pinned THEN pinned[x] ELSE value]

\* cand_graph[source_id][target_id]["pinned"] = value
SetPinned(pinned, e, value) ==
    [x \in DOMAIN pinned \cup {e} |-> IF x = e THEN value ELSE pinned[x]]

\* variant: writing the attribute of a pair that is no edge adds the pair
RECURSIVE PinLoop_AddsEdge(_, _)
PinLoop_AddsEdge(pinned, pinned_edges) ==
    IF pinned_edges = <<>> THEN [raised |-> FALSE, pinned |-> pinned]
    ELSE LET edge == Head(pinned_edges)
         IN PinLoop_AddsEdge(SetPinned(pinned, <<edge[1], edge[2]>>, edge[3]),
                             Tail(pinned_edges))

\* solve, lines 43-45: the pins are written in order; KeyError for a pair that
\* is no edge of the candidate graph
RECURSIVE PinLoop(_, _)
PinLoop(pinned, pinned_edges) ==
    IF pinned_edges = <<>> THEN [raised |-> FALSE, pinned |-> pinned]
    ELSE LET edge == Head(pinned_edges)
         IN IF <<edge[1], edge[2]>> \notin CandEdges
            THEN [raised |-> TRUE, pinned |-> pinned]
            ELSE PinLoop(SetPinned(pinned, <<edge[1], edge[2]>>, edge[3]),
                         Tail(pinned_edges))

\* construct_solver: Pin("pinned") and MaxParents(1); MaxChildren is read from
\* solver_params and any subgraph within these constraints may be selected
Feasible(pinned) ==
    {S \in SUBSET CandEdges :
        /\ \A e \in DOMAIN pinned : (e \in S) = pinned[e]
        /\ \A e1, e2 \in S : e1[2] = e2[2] => e1 = e2}

\* solver.solve and get_selected_subgraph: a feasible selection; the solver
\* raises nothing when there is none and the selection read back is arbitrary
Selections(pinned) ==
    IF Feasible(pinned) # {} THEN Feasible(pinned) ELSE SUBSET CandEdges

\* graph_to_nx: the selected edges with the attributes of the candidates
SolutionGraph(S, pinned) ==
    [edges |-> S,
     pinned |-> [e \in DOMAIN pinned \cap S |-> pinned[e]],
     returned |-> TRUE]

\* get_existing_pins: the edges whose 'pinned' attribute is True
get_existing_pins_AllEdges(g) == g.edges

get_existing_pins(g) ==
    {e \in g.edges : e \in DOMAIN g.pinned /\ g.pinned[e] = TRUE}

RemoveAt(s, i) == SubSeq(s, 1, i - 1) \o SubSeq(s, i + 1, Len(s))

InitSolve ==
    /\ ExtractIdle
    /\ SortIdle
    /\ selected = <<>>
    /\ forks = <<>>
    /\ endpoints = <<>>
    /\ table_data \in EditLogs
    /\ buttons = AllButtonsOff
    /\ raised = "none"
    /\ SolveIdle
    /\ PointsIdle
    /\ ViewIdle

\* solve() is called with the pins of the table; nothing in solve() looks at
\* the calls already running
SolveCall ==
    /\ Len(solve_calls) < MaxSolves
    /\ solve_calls' = Append(solve_calls,
          [pinned_edges |-> get_pins(table_data), pinned |-> <<>>, pc |-> "pin"])
    /\ UNCHANGED <<solved, existing_pins>>
    /\ UNCHANGED extractVars
    /\ UNCHANGED sortVars
    /\ UNCHANGED pointVars
    /\ UNCHANGED viewVars
    /\ UNCHANGED widgetVars

\* lines 43-45 of one call
PinEdges(i) ==
    /\ i \in DOMAIN solve_calls
    /\ solve_calls[i].pc = "pin"
    /\ LET res == PinLoop(solve_calls[i].pinned, solve_calls[i].pinned_edges)
       IN IF res.raised
          THEN /\ solve_calls' = RemoveAt(solve_calls, i)
               /\ raised' = "KeyError"
          ELSE /\ solve_calls' = [solve_calls EXCEPT ![i].pinned = res.pinned,
                                                    ![i].pc = "solve"]
               /\ raised' = raised
    /\ UNCHANGED <<solved, existing_pins>>
    /\ UNCHANGED <<selected, forks, endpoints, table_data, buttons>>
    /\ UNCHANGED extractVars
    /\ UNCHANGED sortVars
    /\ UNCHANGED pointVars
    /\ UNCHANGED viewVars

\* lines 47-56 of one call, and _update reading the pins of the returned graph
SolveReturns(i) ==
    /\ i \in DOMAIN solve_calls
    /\ solve_calls[i].pc = "solve"
    /\ \E S \in Selections(solve_calls[i].pinned) :
          /\ solved' = SolutionGraph(S, solve_calls[i].pinned)
          /\ existing_pins' = get_existing_pins(SolutionGraph(S, solve_calls[i].pinned))
    /\ solve_calls' = RemoveAt(solve_calls, i)
    /\ UNCHANGED extractVars
    /\ UNCHANGED sortVars
    /\ UNCHANGED pointVars
    /\ UNCHANGED viewVars
    /\ UNCHANGED widgetVars

NextSolve ==
    \/ SolveCall
    \/ \E i \in 1..MaxSolves : PinEdges(i)
    \/ \E i \in 1..MaxSolves : SolveReturns(i)

SpecSolve == InitSolve /\ [][NextSolve]_vars

\* ---------------------------------------------------- VolumeModeWidget
Axes == {"z", "y", "x"}

\* on_ndisplay_changed: in 2D Plane, Volume and the sliders are disabled, in
\* 3D Plane is enabled; the radio buttons are not touched
on_ndisplay_changed(w, nd) ==
    [w EXCEPT !.plane_btn = (nd # 2), !.volume_btn = FALSE,
              !.z_plane_slider = FALSE, !.y_plane_slider = FALSE,
              !.x_plane_slider = FALSE]

\* _set_plane: the plane of the layers moves to the slider's value on axis
set_plane(w, axis) ==
    [w EXCEPT !.position = [w.position EXCEPT ![axis] = w.value[axis]]]

\* _set_plane_mode
set_plane_mode(w) ==
    set_plane([w EXCEPT !.mode = "plane", !.plane_btn = FALSE, !.volume_btn = TRUE,
                        !.z_plane_btn = TRUE, !.y_plane_btn = TRUE, !.x_plane_btn = TRUE,
                        !.z_plane_slider = TRUE, !.y_plane_slider = FALSE,
                        !.x_plane_slider = FALSE, !.depiction = "plane"], "z")

\* _set_volume_mode
set_volume_mode(w) ==
    [w EXCEPT !.mode = "volume", !.plane_btn = TRUE, !.volume_btn = FALSE,
              !.z_plane_btn = FALSE, !.y_plane_btn = FALSE, !.x_plane_btn = FALSE,
              !.z_plane_slider = FALSE, !.y_plane_slider = FALSE,
              !.x_plane_slider = FALSE, !.depiction = "volume"]

\* _activate_slider, for the labels layer of the viewer: the plane normal is
\* set, the slider of the axis is enabled and the other two are disabled,
\* whatever the display mode of the viewer
activate_slider(w, axis) ==
    set_plane([w EXCEPT !.normal = axis,
                        !.z_plane_slider = (axis = "z"),
                        !.y_plane_slider = (axis = "y"),
                        !.x_plane_slider = (axis = "x")], axis)

RadioEnabled(w, axis) ==
    IF axis = "z" THEN w.z_plane_btn
    ELSE IF axis = "y" THEN w.y_plane_btn ELSE w.x_plane_btn

SliderEnabled(w, axis) ==
    IF axis = "z" THEN w.z_plane_slider
    ELSE IF axis = "y" THEN w.y_plane_slider ELSE w.x_plane_slider

\* the widget is constructed for a viewer in 2D or 3D display; __init__ ends
\* with on_ndisplay_changed()
InitVolume ==
    /\ ExtractIdle
    /\ SortIdle
    /\ WidgetIdle
    /\ SolveIdle
    /\ PointsIdle
    /\ count = 0
    /\ dims_listener = TRUE
    /\ current_step = 0
    /\ selected_label = 0
    /\ labels_callbacks = 0
    /\ combo_index = 0
    /\ mode = "selection"
    /\ ndisplay \in {2, 3}
    /\ volume_viewer = on_ndisplay_changed(VolumeConstructed, ndisplay)

restVars == <<extractVars, sortVars, widgetVars, solveVars, pointVars, annotVars,
              layerVars>>

\* the viewer switches between 2D and 3D display
NdisplayChanged ==
    /\ ndisplay' = IF ndisplay = 2 THEN 3 ELSE 2
    /\ volume_viewer' = on_ndisplay_changed(volume_viewer, ndisplay')
    /\ UNCHANGED restVars

\* the Plane button is pressed (a disabled button emits nothing)
PlanePressed ==
    /\ volume_viewer.plane_btn
    /\ volume_viewer' = set_plane_mode(volume_viewer)
    /\ UNCHANGED ndisplay
    /\ UNCHANGED restVars

\* the Volume button is pressed
VolumePressed ==
    /\ volume_viewer.volume_btn
    /\ volume_viewer' = set_volume_mode(volume_viewer)
    /\ UNCHANGED ndisplay
    /\ UNCHANGED restVars

\* the z, y or x radio button is clicked
RadioClicked(axis) ==
    /\ RadioEnabled(volume_viewer, axis)
    /\ volume_viewer' = activate_slider([volume_viewer EXCEPT !.checked = axis], axis)
    /\ UNCHANGED ndisplay
    /\ UNCHANGED restVars

\* an enabled slider is moved: valueChanged runs _set_plane for its axis
SliderMoved(axis, v) ==
    /\ SliderEnabled(volume_viewer, axis)
    /\ v # volume_viewer.value[axis]
    /\ volume_viewer' =
          set_plane([volume_viewer EXCEPT !.value = [volume_viewer.value EXCEPT ![axis] = v]],
                    axis)
    /\ UNCHANGED ndisplay
    /\ UNCHANGED restVars

\* VolumeModeWidget._update with the layers of a new solve: the mode is set
\* to 'volume' (line 181); no button, slider or layer depiction is changed
VolumeUpdate ==
    /\ volume_viewer' = [volume_viewer EXCEPT !.mode = "volume"]
    /\ UNCHANGED ndisplay
    /\ UNCHANGED restVars

NextVolume ==
    \/ NdisplayChanged
    \/ VolumeUpdate
    \/ PlanePressed
    \/ VolumePressed
    \/ \E axis \in Axes : RadioClicked(axis)
    \/ \E axis \in Axes, v \in 0..MaxSlice : SliderMoved(axis, v)

SpecVolume == InitVolume /\ [][NextVolume]_vars

\* ------------------------------------------- TrackAnnotationWidget
\* NodeSelectionList.append: a selection of two is cleared first; an extending
\* click on a selection of one appends, any other click replaces
NodeSelectionList_append(sel, node, modifiers) ==
    LET cleared == IF Len(sel) = 2 THEN <<>> ELSE sel
    IN IF modifiers = "ShiftModifier" /\ Len(cleared) = 1
       THEN Append(cleared, node)
       ELSE <<node>>

\* NodeSelectionList.flip: the two elements are swapped; nothing happens to a
\* list of another length
NodeSelectionList_flip(sel) ==
    IF Len(sel) = 2 THEN <<sel[2], sel[1]>> ELSE sel

\* NodeSelectionList.reset
NodeSelectionList_reset(sel) == <<>>

\* the calls of NodeSelectionList that emit list_updated: every mutating call
NodeSelectionList_emits == {"append", "flip", "reset"}

\* the state the slots of list_updated read and write
AnnotatorState ==
    [selected |-> selected, buttons |-> buttons, count |-> count,
     dims_listener |-> dims_listener, current_step |-> current_step,
     selected_label |-> selected_label, combo_index |-> combo_index,
     mode |-> mode]

\* _set_selected_node
set_selected_node(st) ==
    [st EXCEPT !.selected_label =
        IF Len(st.selected) > 0 THEN st.selected[Len(st.selected)].track_id ELSE 0]

\* the display options of the combo box, in the order they are added
DisplayOptions == <<"Selected nodes", "Current track", "Current lineage", "Manual edits">>

\* the mode _highlight_selected_nodes derives from the combo index
ModeOf(index) ==
    IF index = 0 THEN "selection"
    ELSE IF index = 1 THEN "track"
    ELSE IF index = 2 THEN "lineage"
    ELSE "edits"

\* _highlight_selected_nodes: one more run of the display refresh, in the
\* mode of the combo index; no 'Apply to' box is checked, so no display is
\* redrawn
highlight_selected_nodes(st) ==
    [st EXCEPT !.count = st.count + 1, !.mode = ModeOf(st.combo_index)]

\* _check_dim_changed, for a change of the time step (dims.last_used == 0)
check_dim_changed(st) ==
    IF st.mode \in {"selection", "edits"} THEN highlight_selected_nodes(st) ELSE st

\* viewer.dims.current_step = step: the current_step event runs the listener
\* when it is connected
SetStep(st, t) ==
    LET moved == [st EXCEPT !.current_step = t]
    IN IF st.dims_listener /\ t # st.current_step
       THEN check_dim_changed(moved)
       ELSE moved

\* _set_current_step: the listener is disconnected, the viewer jumps to the
\* frame of the last selected node, the listener is connected again
set_current_step(st) ==
    LET off == [st EXCEPT !.dims_listener = FALSE]
        stepped == IF Len(st.selected) > 0
                   THEN SetStep(off, st.selected[Len(st.selected)].t)
                   ELSE off
    IN [stepped EXCEPT !.dims_listener = TRUE]

RECURSIVE list_updated(_)
RECURSIVE AnnotationButtons_update_buttons(_)
RECURSIVE Mutated(_, _, _)

\* a call of the selection list that leaves it as sel: the slots of
\* list_updated run, inside the call, when the call emits the signal
Mutated(st, call, sel) ==
    IF call \in NodeSelectionList_emits
    THEN list_updated([st EXCEPT !.selected = sel])
    ELSE [st EXCEPT !.selected = sel]

\* AnnotationButtons._update_buttons with _check_connection: a pair one frame
\* apart whose second node is the earlier one is flipped by selected_nodes.flip()
\* before the buttons are set
AnnotationButtons_update_buttons(st) ==
    IF Len(st.selected) = 1 THEN [st EXCEPT !.buttons = NodeButtonsOn]
    ELSE IF Len(st.selected) = 2
    THEN LET tp1 == st.selected[1].t
             tp2 == st.selected[2].t
         IN IF ~((tp2 - tp1 = 1) \/ (tp1 - tp2 = 1))
            THEN [st EXCEPT !.buttons = AllButtonsOff]
            ELSE IF tp2 < tp1
                 THEN [Mutated(st, "flip", NodeSelectionList_flip(st.selected))
                          EXCEPT !.buttons = EdgeButtonsOn]
                 ELSE [st EXCEPT !.buttons = EdgeButtonsOn]
    ELSE [st EXCEPT !.buttons = AllButtonsOff]

\* list_updated.emit(): the slots run in the order they were connected,
\* _set_selected_node, _set_current_step, _highlight_selected_nodes (lines
\* 47-51) and then AnnotationButtons._update_buttons (created at line 69)
list_updated(st) ==
    AnnotationButtons_update_buttons(
        highlight_selected_nodes(set_current_step(set_selected_node(st))))

\* the annotator's variables after a handler that left the state st
AnnotatorBecomes(st) ==
    /\ selected' = st.selected
    /\ buttons' = st.buttons
    /\ count' = st.count
    /\ dims_listener' = st.dims_listener
    /\ current_step' = st.current_step
    /\ selected_label' = st.selected_label
    /\ combo_index' = st.combo_index
    /\ mode' = st.mode
    /\ raised' = "none"

\* a click on the labels layer (the callback added by _update): the node of
\* the clicked label in the clicked frame is appended to the selection
AnnotatorClick(t, value, modifiers) ==
    /\ pc = "loaded"
    /\ count < MaxCount
    /\ LET node_df == SelectSeq(track_df, LAMBDA r : r.t = t /\ r.track_id = value)
       IN /\ node_df # <<>>
          /\ AnnotatorBecomes(Mutated(AnnotatorState, "append",
                 NodeSelectionList_append(selected, node_df[1], modifiers)))
    /\ UNCHANGED <<forks, endpoints, table_data>>
    /\ UNCHANGED <<extractVars, sortVars, solveVars, pointVars, volumeVars, layerVars>>

\* _on_table_clicked: the node of a clicked Source or Target cell replaces
\* the selection when the table has a row for it
AnnotatorTableClicked(row, column) ==
    /\ row \in DOMAIN table_data
    /\ count < MaxCount
    /\ LET node_df == TableLookup(track_df, table_data[row], column)
       IN IF node_df # <<>>
          THEN AnnotatorBecomes(Mutated(AnnotatorState, "append",
                 NodeSelectionList_append(selected, node_df[1], "NoModifier")))
          ELSE /\ raised' = "none"
               /\ UNCHANGED <<selected, buttons, annotVars>>
    /\ UNCHANGED <<forks, endpoints, table_data>>
    /\ UNCHANGED <<extractVars, sortVars, solveVars, pointVars, volumeVars, layerVars>>

\* TrackAnnotationWidget._edit_edge, from the Connect/Break button or key A/B
\* (both act only while the button is enabled): a row is added and the
\* selection is reset
AnnotatorEditEdge(edit) ==
    /\ pc = "loaded"
    /\ IF edit = "Add" THEN buttons.connect_btn ELSE buttons.break_btn
    /\ Len(table_data) < MaxLog
    /\ count < MaxCount
    /\ table_data' = Append(table_data, [Source |-> selected[1].node_id,
                                         Target |-> selected[2].node_id,
                                         Action |-> edit])
    /\ AnnotatorBecomes(Mutated(AnnotatorState, "reset",
                                NodeSelectionList_reset(selected)))
    /\ UNCHANGED <<forks, endpoints>>
    /\ UNCHANGED <<extractVars, sortVars, solveVars, pointVars, volumeVars, layerVars>>

\* the user moves the time slider of the viewer
TimeSliderMoved(t) ==
    /\ t # current_step
    /\ count < MaxCount
    /\ AnnotatorBecomes(SetStep(AnnotatorState, t))
    /\ UNCHANGED <<forks, endpoints, table_data>>
    /\ UNCHANGED <<extractVars, sortVars, solveVars, pointVars, volumeVars, layerVars>>

NextAnnotator ==
    \/ AnnotatorUpdate
    \/ \E i \in DOMAIN track_df, m \in Modifiers :
          AnnotatorClick(track_df[i].t, track_df[i].track_id, m)
    \/ \E r \in DOMAIN table_data, c \in {"Source", "Target", "Action"} :
          AnnotatorTableClicked(r, c)
    \/ \E edit \in {"Add", "Break"} : AnnotatorEditEdge(edit)
    \/ \E t \in 0..MaxT : TimeSliderMoved(t)

SpecAnnotator == InitWidget /\ [][NextAnnotator]_vars

\* ------------------------------------------------ SelectMode, key T
\* QComboBox.setCurrentIndex: an index that names no item leaves the box
\* without a current item (currentIndex() = -1); a change of the index emits
\* currentIndexChanged, connected to _update_display, which emits
\* display_updated, connected to _highlight_selected_nodes
setCurrentIndex(st, index) ==
    LET new == IF index \in 0..(Len(DisplayOptions) - 1) THEN index ELSE -1
        set == [st EXCEPT !.combo_index = new]
    IN IF new # st.combo_index THEN highlight_selected_nodes(set) ELSE set

\* _select_next_display_option: the index after the current one, or 0 when
\* that is greater than 4, is set, and display_updated is emitted
select_next_display_option(st) ==
    LET checked_id == st.combo_index
        next_id == IF checked_id + 1 > 4 THEN 0 ELSE checked_id + 1
    IN highlight_selected_nodes(setCurrentIndex(st, next_id))

\* key T
SelectNext ==
    /\ count + 2 <= MaxCount
    /\ AnnotatorBecomes(select_next_display_option(AnnotatorState))
    /\ UNCHANGED <<forks, endpoints, table_data>>
    /\ UNCHANGED <<extractVars, sortVars, solveVars, pointVars, volumeVars, layerVars>>

\* the user picks an option of the combo box
ComboPicked(index) ==
    /\ index # combo_index
    /\ count < MaxCount
    /\ AnnotatorBecomes(setCurrentIndex(AnnotatorState, index))
    /\ UNCHANGED <<forks, endpoints, table_data>>
    /\ UNCHANGED <<extractVars, sortVars, solveVars, pointVars, volumeVars, layerVars>>

NextMode ==
    \/ SelectNext
    \/ \E index \in 0..(Len(DisplayOptions) - 1) : ComboPicked(index)
    \/ \E t \in 0..MaxT : TimeSliderMoved(t)

SpecMode == InitWidget /\ [][NextMode]_vars

\* --------------------------------- mouse presses on the labels layer
\* @self.labels.mouse_drag_callbacks.append in _update: a layer that was not
\* handed to _update before has this one click callback of the widget, a
\* layer handed to it again keeps the callbacks of the earlier updates
callbacks_after(n, fresh) == IF fresh THEN 1 ELSE n + 1

\* _update with a solved graph and a labels layer, which is a new layer or
\* the layer of the update before; an exception of the extraction (line 128)
\* ends the handler before self.labels is assigned
UpdateLabels(tracks, fresh) ==
    /\ fresh \/ labels_callbacks > 0
    /\ fresh \/ labels_callbacks < MaxCallbacks
    /\ UpdateTracks(tracks)
    /\ labels_callbacks' = IF WidgetExtractions[tracks].raised THEN labels_callbacks
                           ELSE callbacks_after(labels_callbacks, fresh)
    /\ UNCHANGED <<pointVars, annotVars, volumeVars>>

RECURSIVE RunCallbacks(_, _, _, _, _)

\* napari calls the callbacks of mouse_drag_callbacks one after the other; an
\* exception of one ends the dispatch
RunCallbacks(st, k, df, node, modifiers) ==
    IF k = 0 \/ st.raised # "none" THEN st
    ELSE RunCallbacks(select_node(st, df, node, modifiers), k - 1, df, node, modifiers)

\* one mouse press on the label value at time t of the labels layer: every
\* click callback of the layer runs (lines 135-148) and selects the node
MousePress(t, value, modifiers) ==
    /\ pc = "loaded"
    /\ LET node_df == SelectSeq(track_df, LAMBDA r : r.t = t /\ r.track_id = value)
           res == RunCallbacks([selected |-> selected, buttons |-> buttons,
                                raised |-> "none"],
                               labels_callbacks, track_df, node_df[1], modifiers)
       IN /\ node_df # <<>>
          /\ selected' = res.selected
          /\ buttons' = res.buttons
          /\ raised' = res.raised
    /\ UNCHANGED <<forks, endpoints, table_data>>
    /\ UNCHANGED <<extractVars, sortVars, solveVars, pointVars, viewVars>>

NextPress ==
    \/ \E tracks \in WidgetGraphs, fresh \in BOOLEAN : UpdateLabels(tracks, fresh)
    \/ \E i \in DOMAIN track_df, m \in Modifiers :
          MousePress(track_df[i].t, track_df[i].track_id, m)

SpecPress == InitWidget /\ [][NextPress]_vars

\* ====================================================== claims C1 - C4
\* the chain of a node, found by walking to the first node whose predecessor
\* is missing or is a node with more than one child
RECURSIVE ChainHead(_, _)
ChainHead(g, v) ==
    IF g.pred[v] = <<>> THEN v
    ELSE IF OutDegree(g, g.pred[v][1]) > 1 THEN v
    ELSE ChainHead(g, g.pred[v][1])

NumChains(g) == Cardinality({ChainHead(g, v) : v \in Nodes(g)})

RowOf(df, v) == df[CHOOSE i \in DOMAIN df : df[i].node_id = v]

Col(order, track_id) == ListIndex(order, track_id)

\* the direct call's input is the track tree of scenario B
SortScenarioB ==
    sort_input = <<[track_id |-> 1, parent_track_id |-> 0],
                   [track_id |-> 2, parent_track_id |-> 1],
                   [track_id |-> 3, parent_track_id |-> 1]>>

\* C3 as claimed: in the order sort_track_ids returns, a parent's column is
\* smaller than the column of each of its children, and a root 1 with
\* children 2 and 3 gives the columns 1, 2, 3
C3_ChildrenAfterParent ==
    sort_pc = "done" =>
        /\ \A i \in DOMAIN sort_input :
              sort_input[i].parent_track_id # 0 =>
                  Col(sort_output, sort_input[i].parent_track_id)
                      < Col(sort_output, sort_input[i].track_id)
        /\ SortScenarioB => sort_output = <<1, 2, 3>>

\* C3 amended: the first-discovered child of a track lies in a column before
\* its parent's, every later child in a column after the parent's, siblings
\* left to right in discovery order; a root 1 with children 2 and 3 gives the
\* columns 2, 1, 3
C3_FirstChildBeforeParent ==
    sort_pc = "done" =>
        /\ \A i \in DOMAIN sort_input :
              LET p == sort_input[i].parent_track_id
                  c == sort_input[i].track_id
                  first == \A j \in 1..(i - 1) : sort_input[j].parent_track_id # p
              IN p # 0 =>
                    /\ first => Col(sort_output, c) < Col(sort_output, p)
                    /\ ~first => Col(sort_output, p) < Col(sort_output, c)
        /\ \A i, j \in DOMAIN sort_input :
              (/\ i < j
               /\ sort_input[i].parent_track_id = sort_input[j].parent_track_id)
                  => Col(sort_output, sort_input[i].track_id)
                         < Col(sort_output, sort_input[j].track_id)
        /\ SortScenarioB => sort_output = <<2, 1, 3>>

\* sort_track_ids has returned for the track tree of scenario B
C3_Witness ==
    /\ sort_pc = "done"
    /\ SortScenarioB
    /\ Len(sort_output) = 3

\* C4: in every returned row set all rows that share a track_id have the same
\* x_axis_pos
C4_OneColumnPerTrack ==
    pc = "done" =>
        \A i, j \in DOMAIN track_df :
            track_df[i].track_id = track_df[j].track_id
                => track_df[i].x_axis_pos = track_df[j].x_axis_pos

\* a returned row set with two rows in one track and a second track
C4_Witness ==
    /\ pc = "done"
    /\ \E i, j \in DOMAIN track_df :
          /\ i # j
          /\ track_df[i].track_id = track_df[j].track_id
    /\ \E i, j \in DOMAIN track_df : track_df[i].track_id # track_df[j].track_id

\* ===================================================== claims C5 - C10
\* C5: after any sequence of selections, connectivity checks, edge edits,
\* node edits and resets the selection list holds at most 2 nodes
C5_SelectionAtMostTwo == Len(selected) <= 2

\* two nodes are selected again after an edge edit was recorded
C5_Witness ==
    /\ Len(selected) = 2
    /\ table_data # <<>>

\* C6 as claimed: selecting node n with modifier m on selection S gives
\* [S[0], n] iff m is Shift and S has one element, and [n] in every other case
C6_SelectGivesPairOrSingle ==
    [][\A i \in DOMAIN track_df, m \in Modifiers :
          OnClick(track_df[i].index, m) =>
              selected' = IF m = "ShiftModifier" /\ Len(selected) = 1
                          THEN <<selected[1], track_df[i]>>
                          ELSE <<track_df[i]>>]_vars

\* C6 amended: selecting node n with modifier m on selection S gives the two
\* nodes S[0] and n iff m is Shift and S has one element, in the order
\* [S[0], n] unless n lies exactly one time point before S[0], when the
\* connectivity check leaves [n, S[0]]; in every other case it gives [n].
\* When S[0] was selected before a later solve, the extending click raises
\* IndexError and leaves S if the row index of S[0] is beyond the table, and
\* raises KeyError and leaves [S[0], n] unordered if the track id of S[0] is
\* not in the table.
C6_SelectGivesOrderedPairOrSingle ==
    [][\A i \in DOMAIN track_df, m \in Modifiers :
          OnClick(track_df[i].index, m) =>
              IF m = "ShiftModifier" /\ Len(selected) = 1
              THEN IF selected[1].index >= Len(track_df)
                   THEN selected' = selected /\ raised' = "IndexError"
                   ELSE IF selected[1].track_id \notin LabelColorKeys(track_df)
                   THEN selected' = <<selected[1], track_df[i]>> /\ raised' = "KeyError"
                   ELSE selected' = IF track_df[i].t + 1 = selected[1].t
                                    THEN <<track_df[i], selected[1]>>
                                    ELSE <<selected[1], track_df[i]>>
              ELSE selected' = <<track_df[i]>>]_vars

\* a Shift click has put a second node next to the first
C6_Witness ==
    /\ Len(selected) = 2
    /\ selected[1].node_id # selected[2].node_id
    /\ raised = "none"

\* C7: when a Shift click makes the selection two nodes and the connectivity
\* check runs, it succeeds (the edge buttons are enabled) iff their t differ
\* by exactly 1; when it succeeds the node with the smaller t is left at
\* index 0, and when it fails the order of the selection is unchanged
C7_ConnectableIffOneApartAndOrdered ==
    [][\A i \in DOMAIN track_df :
          (/\ Len(selected) = 1
           /\ OnClick(track_df[i].index, "ShiftModifier")
           /\ raised' = "none") =>
              LET a == selected[1]
                  b == track_df[i]
                  apart == (a.t - b.t = 1) \/ (b.t - a.t = 1)
              IN /\ buttons'.connect_btn <=> apart
                 /\ buttons'.break_btn <=> apart
                 /\ apart => /\ selected'[1].t < selected'[2].t
                             /\ {selected'[1], selected'[2]} = {a, b}
                 /\ ~apart => selected' = <<a, b>>]_vars

\* the selection [(t=1), (t=2)] with the edge buttons enabled
C7_Witness ==
    /\ Len(selected) = 2
    /\ selected[1].t = 1
    /\ selected[2].t = 2
    /\ buttons.connect_btn

\* C8: after a Close edit on node n, n is in endpoints and not in forks,
\* whatever its prior state, and after a Fork edit n is in forks and not in
\* endpoints
C8_LastForkCloseEditWins ==
    [][\A i \in DOMAIN track_df :
          LET n == track_df[i].node_id
          IN /\ (/\ selected # <<>>
                 /\ selected[1].node_id = n
                 /\ EditNode("Close"))
                    => (InList(endpoints', n) /\ ~InList(forks', n))
             /\ (/\ selected # <<>>
                 /\ selected[1].node_id = n
                 /\ EditNode("Fork"))
                    => (InList(forks', n) /\ ~InList(endpoints', n))]_vars

\* C9: no node id is recorded both as a forced fork and as a forced endpoint
C9_ForkEndpointExclusive ==
    \A i \in DOMAIN track_df :
        ~(InList(forks, track_df[i].node_id) /\ InList(endpoints, track_df[i].node_id))

\* C10: from every reachable annotation state, Reset on node n leaves n
\* neither in forks nor in endpoints, and a second Reset changes nothing
C10_ResetCompleteAndIdempotent ==
    \A i \in DOMAIN track_df :
        LET n == track_df[i].node_id
            once == EditMarks("Reset", forks, endpoints, n)
            twice == EditMarks("Reset", once.forks, once.endpoints, n)
        IN /\ ~InList(once.forks, n)
           /\ ~InList(once.endpoints, n)
           /\ twice = once

\* ==================================================== claims C11 - C20
\* the pairs _get_pins reports with pinned = true
TruePins(pinned_edges) ==
    {<<pinned_edges[i][1], pinned_edges[i][2]>> :
        i \in {j \in DOMAIN pinned_edges : pinned_edges[j][3]}}

\* the returned graph selects every pair pinned true and no pair pinned false
Honours(g, pinned_edges) ==
    \A i \in DOMAIN pinned_edges :
        (<<pinned_edges[i][1], pinned_edges[i][2]>> \in g.edges) = pinned_edges[i][3]

\* C11: when solve() has returned a graph that honours every pin derived from
\* the edit log, get_existing_pins of that graph is exactly the set of pairs
\* that _get_pins reported with pinned = true.
C11_PinRoundTrip ==
    (solved.returned /\ Honours(solved, get_pins(table_data)))
        => existing_pins = TruePins(get_pins(table_data))

\* a returned graph that honours an Add row and a Break row, and also selects
\* an edge that no row pins
C11_Witness ==
    /\ solved.returned
    /\ Honours(solved, get_pins(table_data))
    /\ \E i, j \in DOMAIN table_data :
          table_data[i].Action = "Add" /\ table_data[j].Action = "Break"
    /\ existing_pins # {}
    /\ solved.edges # existing_pins

\* C12: the pins handed to solve() are one per row of the edit table, in the
\* order of the rows, (Source, Target, true) for an Add row and
\* (Source, Target, false) for a Break row.
C12_OnePinPerRowInOrder ==
    \A c \in DOMAIN solve_calls :
        /\ Len(solve_calls[c].pinned_edges) = Len(table_data)
        /\ \A i \in DOMAIN table_data :
              solve_calls[c].pinned_edges[i] =
                  <<table_data[i].Source, table_data[i].Target,
                    table_data[i].Action = "Add">>

\* a call whose pins come from a Break row followed by an Add row of another pair
C12_Witness ==
    /\ solve_calls # <<>>
    /\ Len(table_data) = 2
    /\ table_data[1].Action = "Break"
    /\ table_data[2].Action = "Add"
    /\ table_data[1].Source # table_data[2].Source
    /\ Len(solve_calls[1].pinned_edges) = 2

\* C13: extract_sorted_tracks never returns a row set for a graph in which
\* some node has more than one predecessor; it fails instead of picking one
\* of the predecessors as parent_id.
C13_MalformedGraphFails ==
    (\E v \in Nodes(solution_nx_graph) : Len(solution_nx_graph.pred[v]) > 1)
        => pc # "done"

\* C14: an update whose extraction fails leaves the track table exactly as it
\* was before the update.
C14_FailedUpdateKeepsTable ==
    [][(Update /\ raised' = "IndexError") => track_df' = track_df]_vars

\* a failed update of a widget that held the three rows of an earlier solve
C14_Witness ==
    /\ solution_nx_graph = ScenarioC
    /\ raised = "IndexError"
    /\ Len(track_df) = 3

\* C15: every update with a newly solved graph leaves the selection list empty.
C15_UpdateClearsSelection ==
    [][(Update /\ raised' = "none") => selected' = <<>>]_vars

\* table_data with a non-empty set of its rows removed, the others in order
IsDeletionOf(new, old) ==
    \E rows \in SUBSET (DOMAIN old) :
        /\ rows # {}
        /\ new = [i \in DOMAIN DeleteRows(old, rows) |-> DeleteRows(old, rows)[i].row]

C17_EdgeEditNeverRaises ==
    [][(ConnectClicked \/ \E edit \in {"Add", "Break"} : EdgeKey(edit))
          => raised' = "none"]_vars

\* no row of the track table has this node id
AbsentFromTable(node_id) == \A i \in DOMAIN track_df : track_df[i].node_id # node_id

NothingHappens ==
    /\ selected' = selected
    /\ buttons' = buttons
    /\ points_symbol' = points_symbol
    /\ raised' = "none"

\* C18: a click on a Source or Target cell whose node has no row in the track
\* table, and a user-edit notification for a node without a row, raise nothing
\* and leave the selection, the buttons and the point symbols as they were.
C18_AbsentNodeIsNoOp ==
    [][/\ \A r \in DOMAIN table_data, c \in {"Source", "Target"} :
            (AbsentFromTable(table_data[r][c]) /\ OnTableClicked(r, c))
                => NothingHappens
       /\ \A node_id \in PointNodeIds, edit \in PointEdits :
            (AbsentFromTable(node_id) /\ UserUpdate(node_id, edit))
                => NothingHappens]_vars

\* the table of a re-solve has lost the target of a row of the edit table,
\* while a node is selected and a point carries a mark
C18_Witness ==
    /\ pc = "loaded"
    /\ raised = "none"
    /\ \E r \in DOMAIN table_data : AbsentFromTable(table_data[r].Target)
    /\ selected # <<>>
    /\ \E i \in DOMAIN points_symbol : points_symbol[i] # "disc"

\* C19: at most one call of solve() is in progress at any time; a request
\* made while a call is running starts no second call.
C19_AtMostOneSolve == Len(solve_calls) <= 1

\* C20: no step of extract_sorted_tracks, returning or failing, changes the
\* graph that was passed in; the edges of division nodes are missing only
\* from the internal copy.
C20_InputGraphUnchanged == [][solution_nx_graph' = solution_nx_graph]_vars

\* the call has returned for a graph with a division: the copy has lost the
\* division's edges and the input still has them
C20_Witness ==
    /\ pc = "done"
    /\ parent_nodes(solution_nx_graph) # {}
    /\ soln_copy # Edges(solution_nx_graph)
    /\ \E v \in parent_nodes(solution_nx_graph) : out_edges(solution_nx_graph, v) # {}

\* ==================================================== claims C21 - C30
\* C21: for every graph with in-degree <= 1 and edges forward in time, in
\* whatever order the components are iterated, the parent-track lookup of a
\* chain's first node succeeds: no extraction ends in its IndexError.
C21_ParentLookupSucceeds == [][~ParentLookupRaises]_vars

\* the first node of the chain of v
IsChainFirst(g, v) == ChainHead(g, v) = v

C23_SortedChainIsGraphOrder ==
    \A i \in DOMAIN track_list :
        (i > 1 /\ track_list[i - 1].track_id = track_list[i].track_id)
            => /\ track_list[i].parent_id = track_list[i - 1].node_id
               /\ track_list[i - 1].t < track_list[i].t

\* a returned chain of three nodes whose insertion order is not their order
\* in time
C23_Witness ==
    /\ pc = "done"
    /\ \E i \in DOMAIN track_list :
          /\ i > 2
          /\ track_list[i - 2].track_id = track_list[i].track_id
          /\ track_list[i - 1].track_id = track_list[i].track_id
          /\ track_list[i - 1].node_id > track_list[i].node_id

\* the ids of a track list, and the parent of one of its tracks
TrackIds(tracks) == {tracks[i].track_id : i \in DOMAIN tracks}

ParentTrack(tracks, c) ==
    tracks[CHOOSE i \in DOMAIN tracks : tracks[i].track_id = c].parent_track_id

\* d is a or descends from a
RECURSIVE InSubtree(_, _, _, _)
InSubtree(tracks, a, d, k) ==
    IF d = a THEN TRUE
    ELSE IF d = 0 \/ k = 0 THEN FALSE
    ELSE InSubtree(tracks, a, ParentTrack(tracks, d), k - 1)

\* the tracks of S lie in consecutive columns of order
Consecutive(order, ids, S) ==
    \A x, y \in S : \A z \in ids :
        (Col(order, x) < Col(order, z) /\ Col(order, z) < Col(order, y)) => z \in S

\* siblings keep their discovery order
SiblingsInDiscoveryOrder(tracks, order) ==
    \A i, j \in DOMAIN tracks :
        (/\ i < j
         /\ tracks[i].parent_track_id # 0
         /\ tracks[i].parent_track_id = tracks[j].parent_track_id)
            => Col(order, tracks[i].track_id) < Col(order, tracks[j].track_id)

PinsNaming(pinned_edges, e) ==
    {i \in DOMAIN pinned_edges : <<pinned_edges[i][1], pinned_edges[i][2]>> = e}

\* C25: once the pins of a call have been written to the candidate graph in
\* list order, an edge has the pinned attribute iff some pin names its pair,
\* and the attribute is the value of the last pin in the list that names it.
C25_LastPinWins ==
    \A c \in DOMAIN solve_calls :
        solve_calls[c].pc = "solve" =>
            LET pins == solve_calls[c].pinned_edges
                pinned == solve_calls[c].pinned
            IN /\ DOMAIN pinned = {e \in CandEdges : PinsNaming(pins, e) # {}}
               /\ \A e \in DOMAIN pinned :
                     \E i \in PinsNaming(pins, e) :
                        /\ \A j \in PinsNaming(pins, e) : j <= i
                        /\ pinned[e] = pins[i][3]

\* a call whose list pins one candidate edge first true and then false, with
\* the pins written and the solver not yet run
C25_Witness ==
    \E c \in DOMAIN solve_calls :
        /\ solve_calls[c].pc = "solve"
        /\ Len(solve_calls[c].pinned_edges) = 2
        /\ solve_calls[c].pinned_edges[1][1] = solve_calls[c].pinned_edges[2][1]
        /\ solve_calls[c].pinned_edges[1][2] = solve_calls[c].pinned_edges[2][2]
        /\ solve_calls[c].pinned_edges[1][3]
        /\ ~solve_calls[c].pinned_edges[2][3]
        /\ CandEdges \ DOMAIN solve_calls[c].pinned # {}

\* the buttons the claim expects for a selection
ButtonsFor(sel) ==
    IF Len(sel) = 1 THEN NodeButtonsOn
    ELSE IF Len(sel) = 2 /\ (sel[2].t - sel[1].t = 1 \/ sel[1].t - sel[2].t = 1)
         THEN EdgeButtonsOn
         ELSE AllButtonsOff

\* C26: after every change of the selection, Fork/Close/Reset are enabled iff
\* exactly one node is selected and Connect/Break iff exactly two nodes are
\* selected whose t differ by exactly 1; the two groups are never enabled
\* together.
C26_ButtonsFollowSelection ==
    [][selected' # selected =>
          /\ buttons' = ButtonsFor(selected')
          /\ ~(buttons'.fork_btn /\ buttons'.connect_btn)]_vars

\* C29: for every track forest, sort_track_ids returns every track id exactly
\* once, so the columns of distinct tracks differ and are exactly 0..K-1.
C29_OrderIsPermutation ==
    sort_pc = "done" =>
        /\ Len(sort_output) = Len(sort_input)
        /\ Range(sort_output) = TrackIds(sort_input)
        /\ {Col(sort_output, c) : c \in TrackIds(sort_input)}
              = 0..(Len(sort_input) - 1)

\* the order returned for a forest with two roots and a track that has a
\* grandparent
C29_Witness ==
    /\ sort_pc = "done"
    /\ Len(sort_output) = 4
    /\ Cardinality({c \in TrackIds(sort_input) : ParentTrack(sort_input, c) = 0}) = 2
    /\ \E c \in TrackIds(sort_input) :
          /\ ParentTrack(sort_input, c) # 0
          /\ ParentTrack(sort_input, ParentTrack(sort_input, c)) # 0

\* C27: whenever the viewer is in 2D display, after any sequence of display
\* changes, Plane/Volume presses and radio-button clicks, the Plane button,
\* the Volume button and the three plane sliders are disabled.
C27_AllDisabledIn2D ==
    ndisplay = 2 =>
        /\ ~volume_viewer.plane_btn
        /\ ~volume_viewer.volume_btn
        /\ ~volume_viewer.z_plane_slider
        /\ ~volume_viewer.y_plane_slider
        /\ ~volume_viewer.x_plane_slider

\* C30: every row recorded in the edit log goes from a node to a node exactly
\* one frame later: whenever a handler adds rows to the table, two nodes are
\* selected, the second has the t of the first plus 1, and each added row has
\* the first as Source and the second as Target.
C30_RecordedEdgeIsOneFrameForward ==
    [][Len(table_data') > Len(table_data) =>
          /\ Len(selected) = 2
          /\ selected[2].t = selected[1].t + 1
          /\ selected[1].node_id # selected[2].node_id
          /\ \A k \in (Len(table_data) + 1)..Len(table_data') :
                /\ table_data'[k].Source = selected[1].node_id
                /\ table_data'[k].Target = selected[2].node_id]_vars

\* an edit is in the log, between two nodes of the loaded table one frame
\* apart, and the handler that recorded it has cleared the selection
C30_Witness ==
    /\ selected = <<>>
    /\ \E k \in DOMAIN table_data : \E i, j \in DOMAIN track_df :
          /\ table_data[k].Source = track_df[i].node_id
          /\ table_data[k].Target = track_df[j].node_id
          /\ track_df[j].t = track_df[i].t + 1

\* C28: one click that changes the selection list runs the display refresh
\* exactly once (count grows by one), whatever the handlers of the change do,
\* and leaves the dims listener connected.
C28_OneRefreshPerSelection ==
    [][(selected' # selected /\ table_data' = table_data) =>
          /\ count' = count + 1
          /\ dims_listener']_vars

\* ==================================================== claims C31 - C38
\* the row _edit_edge records for the selected pair
RowFor(edit) ==
    [Source |-> selected[1].node_id, Target |-> selected[2].node_id, Action |-> edit]

\* C31: a press of the enabled Connect button appends exactly one row, with
\* action Add, for the selected pair; a press of the enabled Break button
\* appends exactly one row with action Break; both presses end without an
\* error and leave the selection empty.
C31_PressAppendsOneRow ==
    [][/\ (ConnectClicked /\ Len(selected) = 2) =>
             /\ table_data' = Append(table_data, RowFor("Add"))
             /\ raised' = "none"
             /\ selected' = <<>>
       /\ (BreakClicked /\ Len(selected) = 2) =>
             /\ table_data' = Append(table_data, RowFor("Break"))
             /\ raised' = "none"
             /\ selected' = <<>>]_vars

\* C32: one mouse press on a node of the labels layer performs exactly one
\* selection append, however many updates came before: a Shift press with one
\* node of the table selected leaves two nodes selected.
C32_ShiftPressGivesPair ==
    [][\A i \in DOMAIN track_df :
          (/\ Len(selected) = 1
           /\ \E j \in DOMAIN track_df : selected[1] = track_df[j]
           /\ MousePress(track_df[i].t, track_df[i].track_id, "ShiftModifier"))
             => Len(selected') = 2]_vars

\* C33: the display-mode index stays within the four options 0..3, key T goes
\* 0 -> 1 -> 2 -> 3 -> 0, and the mode is the one named by the option shown.
C33_IndexNamesShownOption ==
    /\ [](combo_index \in 0..3 /\ mode = ModeOf(combo_index))
    /\ [][SelectNext => combo_index' = (combo_index + 1) % 4]_vars

\* C34: in 3D display the mode and the buttons of the volume widget agree:
\* Plane is enabled exactly when the mode is 'volume', Volume exactly when
\* the mode is 'plane', and the two are never enabled together.
C34_ModeAndButtonsAgree ==
    ndisplay = 3 =>
        /\ volume_viewer.plane_btn <=> volume_viewer.mode = "volume"
        /\ volume_viewer.volume_btn <=> volume_viewer.mode = "plane"
        /\ ~(volume_viewer.plane_btn /\ volume_viewer.volume_btn)

\* C35: after every update attempt the solved graph the widget holds and its
\* track table come from the same solve: the table is the extraction of the
\* graph held.
C35_GraphAndTableSameSolve ==
    solution_nx_graph \in WidgetGraphs =>
        /\ ~WidgetExtractions[solution_nx_graph].raised
        /\ track_df = WidgetExtractions[solution_nx_graph].rows

\* a pin of the list names a pair that is no edge of the candidate graph
HasNonEdgePin(pinned_edges) ==
    \E k \in DOMAIN pinned_edges :
        <<pinned_edges[k][1], pinned_edges[k][2]>> \notin CandEdges

\* C36: applying pins never changes the edge set of the candidate graph: the
\* pinned attribute is only ever on candidate edges, the graph returned has
\* candidate edges only, and a call whose pins name a pair that is no
\* candidate edge fails with an error in the pin loop, before a solver is
\* constructed.
C36_PinsKeepEdgeSet ==
    /\ [](/\ \A i \in DOMAIN solve_calls :
                DOMAIN solve_calls[i].pinned \subseteq CandEdges
          /\ solved.edges \subseteq CandEdges
          /\ DOMAIN solved.pinned \subseteq CandEdges)
    /\ [][\A i \in DOMAIN solve_calls :
             (PinEdges(i) /\ HasNonEdgePin(solve_calls[i].pinned_edges))
                => /\ raised' = "KeyError"
                   /\ solve_calls' = RemoveAt(solve_calls, i)
                   /\ solved' = solved]_vars

\* a call whose pins name a pair that is no candidate edge has failed in the
\* pin loop, and no call is past that loop
C36_Witness ==
    /\ raised = "KeyError"
    /\ HasNonEdgePin(get_pins(table_data))
    /\ \A i \in DOMAIN solve_calls : solve_calls[i].pc = "pin"

\* the rows a click on the label value at time t looks up (lines 407-410)
RowsAt(df, t, value) == SelectSeq(df, LAMBDA r : r.t = t /\ r.track_id = value)

\* C37: in every row set extracted from a graph with in-degree <= 1 and
\* forward-in-time edges no two rows of one track have the same t, so the
\* lookup by (t, track_id) matches at most one row.
C37_TrackHasOneNodePerFrame ==
    /\ \A i, j \in DOMAIN track_list :
          (i # j /\ track_list[i].track_id = track_list[j].track_id)
              => track_list[i].t # track_list[j].t
    /\ \A t \in 0..MaxT, value \in 1..MaxNodes : Len(RowsAt(track_df, t, value)) <= 1

\* a returned row set with a track of two nodes and with two nodes of one
\* frame, which lie in two tracks
C37_Witness ==
    /\ pc = "done"
    /\ \E i, j \in DOMAIN track_df :
          i # j /\ track_df[i].track_id = track_df[j].track_id
    /\ \E i, j \in DOMAIN track_df :
          /\ i # j
          /\ track_df[i].t = track_df[j].t
          /\ Len(RowsAt(track_df, track_df[i].t, track_df[i].track_id)) = 1


\* the number of tracks on the path from a track up to the root of its tree
RECURSIVE TrackDepth(_, _, _)
TrackDepth(tracks, track_id, k) ==
    IF track_id = 0 \/ k = 0 THEN 0
    ELSE LET i == CHOOSE j \in DOMAIN tracks : tracks[j].track_id = track_id
         IN 1 + TrackDepth(tracks, tracks[i].parent_track_id, k - 1)

\* the depth of the deepest track tree, counted in tracks (0 for no track)
DeepestTree(tracks) ==
    LET depths == {TrackDepth(tracks, tracks[i].track_id, Len(tracks)) :
                      i \in DOMAIN tracks}
    IN IF depths = {} THEN 0 ELSE CHOOSE d \in depths : \A e \in depths : e <= d

\* C38: for every track list whose parent relation is a forest the call of
\* sort_track_ids returns: the list of tracks still to be expanded becomes
\* empty, and the while loop never makes more passes than the deepest track
\* tree has levels
C38_FrontierEmpties ==
    /\ <>(sort_pc = "done" /\ sort_roots = <<>>)
    /\ [](sort_rounds <= DeepestTree(sort_input))

\* a call on a chain of three tracks has returned after three passes
C38_Witness ==
    /\ sort_pc = "done"
    /\ sort_roots = <<>>
    /\ sort_rounds = 3
    /\ DeepestTree(sort_input) = 3

====
